---- MODULE Spec2Model ----
(***************************************************************************)
(* QuickNote API: the note controller (validation, sanitization, response  *)
(* translation) over the Note model (one SQL statement per operation).     *)
(*                                                                         *)
(* A JavaScript string is a sequence of one-character strings.  A request  *)
(* field is a JavaScript value: a record with its type, its characters     *)
(* when it is a string and its number when it is a number or a boolean.    *)
(***************************************************************************)
EXTENDS Integers, Sequences, FiniteSets, TLC

VARIABLES notes, nextId, now, req, res, calls, logged, pending

vars == <<notes, nextId, now, req, res, calls, logged, pending>>

(***************************************************************************)
(* Bounds of the model.                                                    *)
(***************************************************************************)
\* longest request string enumerated exhaustively over Alphabet
MaxLen == 2
\* ids the notes_id_seq sequence hands out in Spec
MaxId == 1
\* ids the notes_id_seq sequence hands out in SpecLifecycle
MaxNotes == 2
\* clients with a request in flight at the same time in SpecConcurrent
MaxClients == 2
\* last tick of the database clock
MaxTime == 1

(***************************************************************************)
(* Program constants (src/src/controllers/noteController.js:3-4).          *)
(***************************************************************************)
MAX_TITLE_LENGTH == 255
\* mutant: the limit of the earlier revision of the controller
MAX_CONTENT_LENGTH_earlier == 10000
MAX_CONTENT_LENGTH == 500

(***************************************************************************)
(* JavaScript values of a JSON request body.                               *)
(***************************************************************************)
JsValue(t, s, n) == [type |-> t, str |-> s, num |-> n]
Undefined == JsValue("undefined", <<>>, 0)
Null == JsValue("null", <<>>, 0)
Str(s) == JsValue("string", s, 0)
Num(n) == JsValue("number", <<>>, n)
Bool(b) == JsValue("boolean", <<>>, IF b THEN 1 ELSE 0)
Obj == JsValue("object", <<>>, 0)

\* mutant: only a missing or null field counts as absent
Truthy_definedOnly(v) == v.type \notin {"undefined", "null"}

\* ToBoolean, as the `!title` of the presence check applies it
Truthy(v) ==
    CASE v.type = "undefined" -> FALSE
      [] v.type = "null" -> FALSE
      [] v.type = "string" -> Len(v.str) > 0
      [] v.type = "number" -> v.num # 0
      [] v.type = "boolean" -> v.num = 1
      [] OTHER -> TRUE

\* only a string has a trim method: title.trim() on anything else that is
\* truthy raises a TypeError
HasTrim(v) == v.type = "string"

(***************************************************************************)
(* String.prototype.trim                                                   *)
(***************************************************************************)
WhiteSpace == {" ", "\t", "\n", "\r"}

IsWhiteSpace(c) == c \in WhiteSpace

Trim(s) ==
    IF \A i \in 1..Len(s) : IsWhiteSpace(s[i])
    THEN <<>>
    ELSE LET first == CHOOSE i \in 1..Len(s) :
                         /\ ~IsWhiteSpace(s[i])
                         /\ \A j \in 1..(i - 1) : IsWhiteSpace(s[j])
             \* counted from the end of the string
             back == CHOOSE k \in 1..Len(s) :
                         /\ ~IsWhiteSpace(s[Len(s) + 1 - k])
                         /\ \A j \in 1..(k - 1) : IsWhiteSpace(s[Len(s) + 1 - j])
         IN SubSeq(s, first, Len(s) + 1 - back)

(***************************************************************************)
(* sanitize: str.replace(/<[^>]*>/g, '')                                   *)
(* The regular expression matches at q when s[q] is '<' and some '>'       *)
(* follows; [^>]* stops at the first '>', so the match ends there.  The    *)
(* global replace takes the leftmost match from the current index, keeps   *)
(* the text before it, drops the match and resumes behind it.              *)
(***************************************************************************)
MatchesAt(s, q) ==
    /\ s[q] = "<"
    /\ \E g \in (q + 1)..Len(s) : s[g] = ">"

MatchEnd(s, q) ==
    CHOOSE g \in (q + 1)..Len(s) :
        /\ s[g] = ">"
        /\ \A h \in (q + 1)..(g - 1) : s[h] # ">"

RECURSIVE ReplaceFrom(_, _)
ReplaceFrom(s, i) ==
    IF \E q \in i..Len(s) : MatchesAt(s, q)
    THEN LET q == CHOOSE q \in i..Len(s) :
                      /\ MatchesAt(s, q)
                      /\ \A p \in i..(q - 1) : ~MatchesAt(s, p)
         IN SubSeq(s, i, q - 1) \o ReplaceFrom(s, MatchEnd(s, q) + 1)
    ELSE SubSeq(s, i, Len(s))

\* mutant: the greedy pattern /<.*>/g, which runs to the last '>'
sanitize_greedy(str) ==
    IF \E q \in 1..Len(str) : MatchesAt(str, q)
    THEN LET q == CHOOSE q \in 1..Len(str) :
                      /\ MatchesAt(str, q)
                      /\ \A p \in 1..(q - 1) : ~MatchesAt(str, p)
             g == CHOOSE g \in (q + 1)..Len(str) :
                      /\ str[g] = ">"
                      /\ \A h \in (g + 1)..Len(str) : str[h] # ">"
         IN SubSeq(str, 1, q - 1) \o SubSeq(str, g + 1, Len(str))
    ELSE str

\* mutant: the pattern without the g flag, which replaces the first match only
sanitize_firstOnly(str) ==
    IF \E q \in 1..Len(str) : MatchesAt(str, q)
    THEN LET q == CHOOSE q \in 1..Len(str) :
                      /\ MatchesAt(str, q)
                      /\ \A p \in 1..(q - 1) : ~MatchesAt(str, p)
         IN SubSeq(str, 1, q - 1) \o SubSeq(str, MatchEnd(str, q) + 1, Len(str))
    ELSE str

sanitize(str) == ReplaceFrom(str, 1)

(***************************************************************************)
(* Responses: the calls made on res, as a jest mock records them.          *)
(***************************************************************************)
NoResponse == [status |-> <<>>, json |-> <<>>]

ErrorBody(msg) == [kind |-> "error", error |-> msg]
NoteBody(note) == [kind |-> "note", note |-> note]
ListBody(rows) == [kind |-> "list", rows |-> rows]
DeletedBody(note) ==
    [kind |-> "deleted", message |-> "Note deleted successfully", note |-> note]

\* res.status(code).json(body)
StatusJson(code, body) == [status |-> <<code>>, json |-> <<body>>]
\* res.json(body)
Json(body) == [status |-> <<>>, json |-> <<body>>]

TitleTooLongMessage ==
    "Title must be " \o ToString(MAX_TITLE_LENGTH) \o " characters or less"
ContentTooLongMessage ==
    "Content must be " \o ToString(MAX_CONTENT_LENGTH) \o " characters or less"

(***************************************************************************)
(* The synchronous part of createNote and of updateNote: the five checks   *)
(* in source order, then trim and sanitize.  The outcome is a response     *)
(* already sent ("respond"), a TypeError raised inside the try block       *)
(* ("throw"), or the arguments of the awaited store call ("store").        *)
(***************************************************************************)
Respond(r) == [kind |-> "respond", res |-> r, title |-> <<>>, content |-> <<>>]
Throw == [kind |-> "throw", res |-> NoResponse, title |-> <<>>, content |-> <<>>]
Store(t, c) == [kind |-> "store", res |-> NoResponse, title |-> t, content |-> c]

\* mutant: the title length check moved before the content emptiness check
createNoteChecks_lengthFirst(title, content) ==
    IF ~Truthy(title) \/ ~Truthy(content)
    THEN Respond(StatusJson(400, ErrorBody("Title and content are required")))
    ELSE IF ~HasTrim(title) THEN Throw
    ELSE IF Len(Trim(title.str)) = 0
    THEN Respond(StatusJson(400, ErrorBody("Title cannot be empty")))
    ELSE IF Len(Trim(title.str)) > MAX_TITLE_LENGTH
    THEN Respond(StatusJson(400, ErrorBody(TitleTooLongMessage)))
    ELSE IF ~HasTrim(content) THEN Throw
    ELSE IF Len(Trim(content.str)) = 0
    THEN Respond(StatusJson(400, ErrorBody("Content cannot be empty")))
    ELSE IF Len(Trim(content.str)) > MAX_CONTENT_LENGTH
    THEN Respond(StatusJson(400, ErrorBody(ContentTooLongMessage)))
    ELSE Store(sanitize(Trim(title.str)), sanitize(Trim(content.str)))

\* mutant: no content emptiness check, as before it was added
createNoteChecks_noContentCheck(title, content) ==
    IF ~Truthy(title) \/ ~Truthy(content)
    THEN Respond(StatusJson(400, ErrorBody("Title and content are required")))
    ELSE IF ~HasTrim(title) THEN Throw
    ELSE IF Len(Trim(title.str)) = 0
    THEN Respond(StatusJson(400, ErrorBody("Title cannot be empty")))
    ELSE IF ~HasTrim(content) THEN Throw
    ELSE IF Len(Trim(title.str)) > MAX_TITLE_LENGTH
    THEN Respond(StatusJson(400, ErrorBody(TitleTooLongMessage)))
    ELSE IF Len(Trim(content.str)) > MAX_CONTENT_LENGTH
    THEN Respond(StatusJson(400, ErrorBody(ContentTooLongMessage)))
    ELSE Store(sanitize(Trim(title.str)), sanitize(Trim(content.str)))

\* mutant: the title length compared with >= instead of >
createNoteChecks_titleOffByOne(title, content) ==
    IF ~Truthy(title) \/ ~Truthy(content)
    THEN Respond(StatusJson(400, ErrorBody("Title and content are required")))
    ELSE IF ~HasTrim(title) THEN Throw
    ELSE IF Len(Trim(title.str)) = 0
    THEN Respond(StatusJson(400, ErrorBody("Title cannot be empty")))
    ELSE IF ~HasTrim(content) THEN Throw
    ELSE IF Len(Trim(content.str)) = 0
    THEN Respond(StatusJson(400, ErrorBody("Content cannot be empty")))
    ELSE IF Len(Trim(title.str)) >= MAX_TITLE_LENGTH
    THEN Respond(StatusJson(400, ErrorBody(TitleTooLongMessage)))
    ELSE IF Len(Trim(content.str)) > MAX_CONTENT_LENGTH
    THEN Respond(StatusJson(400, ErrorBody(ContentTooLongMessage)))
    ELSE Store(sanitize(Trim(title.str)), sanitize(Trim(content.str)))

createNoteChecks(title, content) ==
    IF ~Truthy(title) \/ ~Truthy(content)
    THEN Respond(StatusJson(400, ErrorBody("Title and content are required")))
    ELSE IF ~HasTrim(title) THEN Throw
    ELSE IF Len(Trim(title.str)) = 0
    THEN Respond(StatusJson(400, ErrorBody("Title cannot be empty")))
    ELSE IF ~HasTrim(content) THEN Throw
    ELSE IF Len(Trim(content.str)) = 0
    THEN Respond(StatusJson(400, ErrorBody("Content cannot be empty")))
    ELSE IF Len(Trim(title.str)) > MAX_TITLE_LENGTH
    THEN Respond(StatusJson(400, ErrorBody(TitleTooLongMessage)))
    ELSE IF Len(Trim(content.str)) > MAX_CONTENT_LENGTH
    THEN Respond(StatusJson(400, ErrorBody(ContentTooLongMessage)))
    ELSE Store(sanitize(Trim(title.str)), sanitize(Trim(content.str)))

\* mutant: the content length measured before trimming
updateNoteChecks_untrimmedLength(title, content) ==
    IF ~Truthy(title) \/ ~Truthy(content)
    THEN Respond(StatusJson(400, ErrorBody("Title and content are required")))
    ELSE IF ~HasTrim(title) THEN Throw
    ELSE IF Len(Trim(title.str)) = 0
    THEN Respond(StatusJson(400, ErrorBody("Title cannot be empty")))
    ELSE IF ~HasTrim(content) THEN Throw
    ELSE IF Len(Trim(content.str)) = 0
    THEN Respond(StatusJson(400, ErrorBody("Content cannot be empty")))
    ELSE IF Len(Trim(title.str)) > MAX_TITLE_LENGTH
    THEN Respond(StatusJson(400, ErrorBody(TitleTooLongMessage)))
    ELSE IF Len(content.str) > MAX_CONTENT_LENGTH
    THEN Respond(StatusJson(400, ErrorBody(ContentTooLongMessage)))
    ELSE Store(sanitize(Trim(title.str)), sanitize(Trim(content.str)))

updateNoteChecks(title, content) ==
    IF ~Truthy(title) \/ ~Truthy(content)
    THEN Respond(StatusJson(400, ErrorBody("Title and content are required")))
    ELSE IF ~HasTrim(title) THEN Throw
    ELSE IF Len(Trim(title.str)) = 0
    THEN Respond(StatusJson(400, ErrorBody("Title cannot be empty")))
    ELSE IF ~HasTrim(content) THEN Throw
    ELSE IF Len(Trim(content.str)) = 0
    THEN Respond(StatusJson(400, ErrorBody("Content cannot be empty")))
    ELSE IF Len(Trim(title.str)) > MAX_TITLE_LENGTH
    THEN Respond(StatusJson(400, ErrorBody(TitleTooLongMessage)))
    ELSE IF Len(Trim(content.str)) > MAX_CONTENT_LENGTH
    THEN Respond(StatusJson(400, ErrorBody(ContentTooLongMessage)))
    ELSE Store(sanitize(Trim(title.str)), sanitize(Trim(content.str)))

(***************************************************************************)
(* The Note model: one SQL statement per operation on the notes table.     *)
(* A row is [id, title, content, created_at, updated_at].                  *)
(***************************************************************************)
\* title VARCHAR(255)
TITLE_COLUMN_WIDTH == 255

Row(id, title, content, created, updated) ==
    [id |-> id, title |-> title, content |-> content,
     created_at |-> created, updated_at |-> updated]

\* the text of req.params.id as PostgreSQL reads it for the integer column
DigitChars == <<"0", "1", "2", "3", "4", "5", "6", "7", "8", "9">>

IsIntegerText(s) ==
    /\ Len(s) > 0
    /\ \A i \in 1..Len(s) : \E d \in 1..10 : DigitChars[d] = s[i]

DigitValue(c) == (CHOOSE d \in 1..10 : DigitChars[d] = c) - 1

RECURSIVE TextToInt(_)
TextToInt(s) ==
    IF s = <<>> THEN 0
    ELSE 10 * TextToInt(SubSeq(s, 1, Len(s) - 1)) + DigitValue(s[Len(s)])

\* mutant: the id computed from the number of rows instead of the sequence
Note_create_countedId(table, serial, clock, title, content) ==
    Row(Cardinality(table) + 1, title, content, clock, clock)

\* mutant: the values bound in the other order, VALUES ($2, $1)
Note_create_swapped(table, serial, clock, title, content) ==
    Row(serial, content, title, clock, clock)

\* INSERT INTO notes (title, content) VALUES ($1, $2) RETURNING *
Note_create(table, serial, clock, title, content) ==
    Row(serial, title, content, clock, clock)

\* mutant: ORDER BY created_at, which is ascending
Note_findAll_ascending(table) ==
    {rows \in [1..Cardinality(table) -> table] :
        /\ \A i, j \in 1..Cardinality(table) : i # j => rows[i] # rows[j]
        /\ \A i, j \in 1..Cardinality(table) :
               i < j => rows[i].created_at <= rows[j].created_at}

\* SELECT * FROM notes ORDER BY created_at DESC: every order of the rows
\* that is descending in created_at (rows of one timestamp in any order)
Note_findAll(table) ==
    {rows \in [1..Cardinality(table) -> table] :
        /\ \A i, j \in 1..Cardinality(table) : i # j => rows[i] # rows[j]
        /\ \A i, j \in 1..Cardinality(table) :
               i < j => rows[i].created_at >= rows[j].created_at}

\* SELECT * FROM notes WHERE id = $1: result.rows
Note_findById(table, id) == {n \in table : n.id = TextToInt(id)}

\* mutant: the UPDATE without its WHERE, which writes every row
Note_update_noWhere(table, clock, id, title, content) ==
    {Row(n.id, title, content, n.created_at, clock) : n \in table}

\* mutant: INSERT ... ON CONFLICT (id) DO UPDATE, which writes the row anew
Note_update_upsert(table, clock, id, title, content) ==
    {n \in table : n.id # TextToInt(id)}
        \cup {Row(TextToInt(id), title, content, clock, clock)}

\* mutant: SET title = $1, content = $2, updated_at not refreshed
Note_update_staleTimestamp(table, clock, id, title, content) ==
    {IF n.id = TextToInt(id)
     THEN Row(n.id, title, content, n.created_at, n.updated_at)
     ELSE n : n \in table}

\* mutant: SET title = $1, updated_at = CURRENT_TIMESTAMP, the content left out
Note_update_titleOnly(table, clock, id, title, content) ==
    {IF n.id = TextToInt(id)
     THEN Row(n.id, title, n.content, n.created_at, clock)
     ELSE n : n \in table}

\* UPDATE notes SET title = $1, content = $2, updated_at = CURRENT_TIMESTAMP
\* WHERE id = $3 RETURNING *: the table afterwards
Note_update(table, clock, id, title, content) ==
    {IF n.id = TextToInt(id)
     THEN Row(n.id, title, content, n.created_at, clock)
     ELSE n : n \in table}

\* mutant: SELECT * FROM notes WHERE id = $1 in the place of the DELETE
Note_delete_keepsRow(table, id) == table

\* mutant: DELETE FROM notes RETURNING *, the statement without its WHERE
Note_delete_noWhere(table, id) == {}

\* DELETE FROM notes WHERE id = $1 RETURNING *: the table afterwards
Note_delete(table, id) == {n \in table : n.id # TextToInt(id)}

\* what pool.query rejects with when the database cannot be reached
PoolErrors == {"ECONNREFUSED", "ETIMEDOUT"}
\* SQLSTATE 22P02, invalid input syntax for type integer: the id parameter
InvalidTextRepresentation == "22P02"
\* SQLSTATE 22001, value too long for type character varying(255)
StringDataRightTruncation == "22001"
\* title.trim is not a function, content.trim is not a function
TypeErrorThrown == "TypeError"

\* the errors the statement of a Note operation can reject with
StoreErrors(dbOk, id, title) ==
    IF ~dbOk THEN PoolErrors
    ELSE IF ~IsIntegerText(id) THEN {InvalidTextRepresentation}
    ELSE IF Len(title) > TITLE_COLUMN_WIDTH THEN {StringDataRightTruncation}
    ELSE {}

\* a call of the Note model, as a jest mock records it
Call(fn, id, title, content) ==
    [fn |-> fn, id |-> id, title |-> title, content |-> content]

(***************************************************************************)
(* State.  notes is the table, nextId the value notes_id_seq hands out     *)
(* next, now the database clock.  req is the request being answered, res   *)
(* the calls its handler made on the response object and calls the calls   *)
(* it made on the Note model; logged is what its catch block passed to     *)
(* console.error.  pending holds the requests whose handlers run at the    *)
(* same time, each suspended at its await.                                 *)
(***************************************************************************)
Request(op, id, title, content) ==
    [op |-> op, id |-> id, title |-> title, content |-> content]

NoRequest == Request("none", <<>>, Undefined, Undefined)

\* the requests in flight: for each client the handler that runs for it,
\* where it stands (idle, awaiting its statement, settled, done), the id and
\* the title and content it passed to the Note model, the rows or the error
\* its statement came back with, the rank of the statement among those the
\* database applied, and the response it sent
Clients == 1..MaxClients

InFlight(stage, op, id, title, content, rows, error, rank, response) ==
    [stage |-> stage, op |-> op, id |-> id, title |-> title, content |-> content,
     rows |-> rows, error |-> error, rank |-> rank, res |-> response]

Idle == InFlight("idle", "none", <<>>, <<>>, <<>>, {}, "", 0, NoResponse)

Init ==
    /\ notes = {}
    /\ nextId = 1
    /\ now = 0
    /\ req = NoRequest
    /\ res = NoResponse
    /\ calls = <<>>
    /\ logged = <<>>
    /\ pending = [c \in Clients |-> Idle]

(***************************************************************************)
(* The handlers.  A handler runs from the request to the response: its     *)
(* synchronous part, the awaited statement (dbOk is whether pool.query     *)
(* resolves or rejects) and the continuation or the catch block, which     *)
(* logs the error and answers 500.                                         *)
(***************************************************************************)
createNote(title, content, dbOk) ==
    \E out \in {createNoteChecks(title, content)} :
    LET row == Note_create(notes, nextId, now, out.title, out.content)
    IN /\ req' = Request("createNote", <<>>, title, content)
       /\ UNCHANGED pending
       /\ UNCHANGED now
       /\ CASE out.kind = "respond" ->
                 /\ res' = out.res
                 /\ calls' = <<>>
                 /\ logged' = <<>>
                 /\ UNCHANGED <<notes, nextId>>
            [] out.kind = "throw" ->
                 /\ res' = StatusJson(500, ErrorBody("Failed to create note"))
                 /\ calls' = <<>>
                 /\ logged' = <<TypeErrorThrown>>
                 /\ UNCHANGED <<notes, nextId>>
            [] out.kind = "store" ->
                 /\ calls' = <<Call("create", <<>>, out.title, out.content)>>
                 /\ IF StoreErrors(dbOk, <<"0">>, out.title) = {}
                    THEN /\ notes' = notes \cup {row}
                         /\ nextId' = nextId + 1
                         /\ res' = StatusJson(201, NoteBody(row))
                         /\ logged' = <<>>
                    ELSE /\ res' = StatusJson(500, ErrorBody("Failed to create note"))
                         /\ \E error \in StoreErrors(dbOk, <<"0">>, out.title) :
                                logged' = <<error>>
                         /\ UNCHANGED <<notes, nextId>>

getAllNotes(dbOk) ==
    /\ req' = Request("getAllNotes", <<>>, Undefined, Undefined)
    /\ UNCHANGED pending
    /\ calls' = <<Call("findAll", <<>>, <<>>, <<>>)>>
    /\ UNCHANGED <<notes, nextId, now>>
    /\ IF StoreErrors(dbOk, <<"0">>, <<>>) = {}
       THEN /\ \E rows \in Note_findAll(notes) : res' = Json(ListBody(rows))
            /\ logged' = <<>>
       ELSE /\ res' = StatusJson(500, ErrorBody("Failed to fetch notes"))
            /\ \E error \in StoreErrors(dbOk, <<"0">>, <<>>) : logged' = <<error>>

\* mutant: the catch block calls Note.findById a second time before it answers
getNoteById_retriesOnce(id, dbOk) ==
    /\ req' = Request("getNoteById", id, Undefined, Undefined)
    /\ UNCHANGED pending
    /\ UNCHANGED <<notes, nextId, now>>
    /\ IF StoreErrors(dbOk, id, <<>>) = {}
       THEN /\ IF Note_findById(notes, id) = {}
               THEN res' = StatusJson(404, ErrorBody("Note not found"))
               ELSE \E note \in Note_findById(notes, id) : res' = Json(NoteBody(note))
            /\ calls' = <<Call("findById", id, <<>>, <<>>)>>
            /\ logged' = <<>>
       ELSE /\ res' = StatusJson(500, ErrorBody("Failed to fetch note"))
            /\ calls' = <<Call("findById", id, <<>>, <<>>),
                          Call("findById", id, <<>>, <<>>)>>
            /\ \E error \in StoreErrors(dbOk, id, <<>>) : logged' = <<error>>

getNoteById(id, dbOk) ==
    /\ req' = Request("getNoteById", id, Undefined, Undefined)
    /\ UNCHANGED pending
    /\ calls' = <<Call("findById", id, <<>>, <<>>)>>
    /\ UNCHANGED <<notes, nextId, now>>
    /\ IF StoreErrors(dbOk, id, <<>>) = {}
       THEN /\ IF Note_findById(notes, id) = {}
               THEN res' = StatusJson(404, ErrorBody("Note not found"))
               ELSE \E note \in Note_findById(notes, id) : res' = Json(NoteBody(note))
            /\ logged' = <<>>
       ELSE /\ res' = StatusJson(500, ErrorBody("Failed to fetch note"))
            /\ \E error \in StoreErrors(dbOk, id, <<>>) : logged' = <<error>>

updateNote(id, title, content, dbOk) ==
    \E out \in {updateNoteChecks(title, content)} :
    LET table == Note_update(notes, now, id, out.title, out.content)
    IN /\ req' = Request("updateNote", id, title, content)
       /\ UNCHANGED pending
       /\ UNCHANGED <<nextId, now>>
       /\ CASE out.kind = "respond" ->
                 /\ res' = out.res
                 /\ calls' = <<>>
                 /\ logged' = <<>>
                 /\ UNCHANGED notes
            [] out.kind = "throw" ->
                 /\ res' = StatusJson(500, ErrorBody("Failed to update note"))
                 /\ calls' = <<>>
                 /\ logged' = <<TypeErrorThrown>>
                 /\ UNCHANGED notes
            [] out.kind = "store" ->
                 /\ calls' = <<Call("update", id, out.title, out.content)>>
                 /\ IF StoreErrors(dbOk, id, out.title) = {}
                    THEN /\ notes' = table
                         /\ IF Note_findById(table, id) = {}
                            THEN res' = StatusJson(404, ErrorBody("Note not found"))
                            ELSE \E note \in Note_findById(table, id) :
                                     res' = Json(NoteBody(note))
                         /\ logged' = <<>>
                    ELSE /\ res' = StatusJson(500, ErrorBody("Failed to update note"))
                         /\ \E error \in StoreErrors(dbOk, id, out.title) :
                                logged' = <<error>>
                         /\ UNCHANGED notes

\* mutant: the 404 branch without its return, so that the success response
\* is sent after it
deleteNote_noReturn(id, dbOk) ==
    /\ req' = Request("deleteNote", id, Undefined, Undefined)
    /\ UNCHANGED pending
    /\ calls' = <<Call("delete", id, <<>>, <<>>)>>
    /\ UNCHANGED <<nextId, now>>
    /\ IF StoreErrors(dbOk, id, <<>>) = {}
       THEN /\ notes' = Note_delete(notes, id)
            /\ IF Note_findById(notes, id) = {}
               THEN res' = [status |-> <<404>>,
                            json |-> <<ErrorBody("Note not found"), DeletedBody(Null)>>]
               ELSE \E note \in Note_findById(notes, id) :
                        res' = Json(DeletedBody(note))
            /\ logged' = <<>>
       ELSE /\ res' = StatusJson(500, ErrorBody("Failed to delete note"))
            /\ \E error \in StoreErrors(dbOk, id, <<>>) : logged' = <<error>>
            /\ UNCHANGED notes

\* mutant: the catch block answers with error.message
deleteNote_leaksError(id, dbOk) ==
    /\ req' = Request("deleteNote", id, Undefined, Undefined)
    /\ UNCHANGED pending
    /\ calls' = <<Call("delete", id, <<>>, <<>>)>>
    /\ UNCHANGED <<nextId, now>>
    /\ IF StoreErrors(dbOk, id, <<>>) = {}
       THEN /\ notes' = Note_delete(notes, id)
            /\ IF Note_findById(notes, id) = {}
               THEN res' = StatusJson(404, ErrorBody("Note not found"))
               ELSE \E note \in Note_findById(notes, id) :
                        res' = Json(DeletedBody(note))
            /\ logged' = <<>>
       ELSE /\ \E error \in StoreErrors(dbOk, id, <<>>) :
                   /\ logged' = <<error>>
                   /\ res' = StatusJson(500, ErrorBody(error))
            /\ UNCHANGED notes

deleteNote(id, dbOk) ==
    /\ req' = Request("deleteNote", id, Undefined, Undefined)
    /\ UNCHANGED pending
    /\ calls' = <<Call("delete", id, <<>>, <<>>)>>
    /\ UNCHANGED <<nextId, now>>
    /\ IF StoreErrors(dbOk, id, <<>>) = {}
       THEN /\ notes' = Note_delete(notes, id)
            /\ IF Note_findById(notes, id) = {}
               THEN res' = StatusJson(404, ErrorBody("Note not found"))
               ELSE \E note \in Note_findById(notes, id) :
                        res' = Json(DeletedBody(note))
            /\ logged' = <<>>
       ELSE /\ res' = StatusJson(500, ErrorBody("Failed to delete note"))
            /\ \E error \in StoreErrors(dbOk, id, <<>>) : logged' = <<error>>
            /\ UNCHANGED notes

\* the database clock advances between requests
Tick ==
    /\ now < MaxTime
    /\ now' = now + 1
    /\ UNCHANGED <<notes, nextId, req, res, calls, logged, pending>>

(***************************************************************************)
(* Handlers that run at the same time.  A handler runs without             *)
(* interruption up to its await (begin), the database applies its          *)
(* statement at some later moment, one statement at a time (await), and    *)
(* the handler resumes with the rows or the error (resume).  Statements of *)
(* different requests are applied in any order.                            *)
(***************************************************************************)
\* the rank of the next statement the database applies
NextRank == 1 + Cardinality({c \in Clients : pending[c].rank > 0})

\* updateNote from its first line to the call of Note.update
updateNote_begin(c, id, title, content) ==
    /\ pending[c].stage = "idle"
    /\ \E out \in {updateNoteChecks(title, content)} :
           pending' = [pending EXCEPT ![c] =
               CASE out.kind = "respond" ->
                        InFlight("done", "updateNote", id, <<>>, <<>>, {}, "", 0, out.res)
                 [] out.kind = "throw" ->
                        InFlight("done", "updateNote", id, <<>>, <<>>, {},
                                 TypeErrorThrown, 0,
                                 StatusJson(500, ErrorBody("Failed to update note")))
                 [] out.kind = "store" ->
                        InFlight("awaiting", "updateNote", id, out.title, out.content,
                                 {}, "", 0, NoResponse)]
    /\ UNCHANGED <<notes, nextId, now, req, res, calls, logged>>

\* the UPDATE statement of Note.update is applied, or rejected
updateNote_await(c, dbOk) ==
    LET p == pending[c]
        table == Note_update(notes, now, p.id, p.title, p.content)
    IN /\ p.stage = "awaiting"
       /\ p.op = "updateNote"
       /\ IF StoreErrors(dbOk, p.id, p.title) = {}
          THEN /\ notes' = table
               /\ pending' = [pending EXCEPT ![c] =
                      [p EXCEPT !.stage = "settled",
                                !.rows = Note_findById(table, p.id),
                                !.rank = NextRank]]
          ELSE /\ \E error \in StoreErrors(dbOk, p.id, p.title) :
                      pending' = [pending EXCEPT ![c] =
                          [p EXCEPT !.stage = "settled", !.error = error]]
               /\ UNCHANGED notes
       /\ UNCHANGED <<nextId, now, req, res, calls, logged>>

\* updateNote from the result of Note.update to its response
updateNote_resume(c) ==
    LET p == pending[c]
    IN /\ p.stage = "settled"
       /\ p.op = "updateNote"
       /\ IF p.error # ""
          THEN pending' = [pending EXCEPT ![c] =
                   [p EXCEPT !.stage = "done",
                             !.res = StatusJson(500, ErrorBody("Failed to update note"))]]
          ELSE IF p.rows = {}
          THEN pending' = [pending EXCEPT ![c] =
                   [p EXCEPT !.stage = "done",
                             !.res = StatusJson(404, ErrorBody("Note not found"))]]
          ELSE \E note \in p.rows :
                   pending' = [pending EXCEPT ![c] =
                       [p EXCEPT !.stage = "done", !.res = Json(NoteBody(note))]]
       /\ UNCHANGED <<notes, nextId, now, req, res, calls, logged>>

\* deleteNote from its first line to the call of Note.delete
deleteNote_begin(c, id) ==
    /\ pending[c].stage = "idle"
    /\ pending' = [pending EXCEPT ![c] =
           InFlight("awaiting", "deleteNote", id, <<>>, <<>>, {}, "", 0, NoResponse)]
    /\ UNCHANGED <<notes, nextId, now, req, res, calls, logged>>

\* the DELETE statement of Note.delete is applied, or rejected
deleteNote_await(c, dbOk) ==
    LET p == pending[c]
    IN /\ p.stage = "awaiting"
       /\ p.op = "deleteNote"
       /\ IF StoreErrors(dbOk, p.id, <<>>) = {}
          THEN /\ notes' = Note_delete(notes, p.id)
               /\ pending' = [pending EXCEPT ![c] =
                      [p EXCEPT !.stage = "settled",
                                !.rows = Note_findById(notes, p.id),
                                !.rank = NextRank]]
          ELSE /\ \E error \in StoreErrors(dbOk, p.id, <<>>) :
                      pending' = [pending EXCEPT ![c] =
                          [p EXCEPT !.stage = "settled", !.error = error]]
               /\ UNCHANGED notes
       /\ UNCHANGED <<nextId, now, req, res, calls, logged>>

\* deleteNote from the result of Note.delete to its response
deleteNote_resume(c) ==
    LET p == pending[c]
    IN /\ p.stage = "settled"
       /\ p.op = "deleteNote"
       /\ IF p.error # ""
          THEN pending' = [pending EXCEPT ![c] =
                   [p EXCEPT !.stage = "done",
                             !.res = StatusJson(500, ErrorBody("Failed to delete note"))]]
          ELSE IF p.rows = {}
          THEN pending' = [pending EXCEPT ![c] =
                   [p EXCEPT !.stage = "done",
                             !.res = StatusJson(404, ErrorBody("Note not found"))]]
          ELSE \E note \in p.rows :
                   pending' = [pending EXCEPT ![c] =
                       [p EXCEPT !.stage = "done", !.res = Json(DeletedBody(note))]]
       /\ UNCHANGED <<notes, nextId, now, req, res, calls, logged>>

(***************************************************************************)
(* Requests.                                                               *)
(***************************************************************************)
Alphabet == {" ", "a", "<", ">"}

\* every string over Alphabet of at most n characters
Strings(n) == UNION {[1..k -> Alphabet] : k \in 0..n}

Repeat(c, n) == SubSeq([i \in 1..n |-> c], 1, n)

NonStrings == {Undefined, Null, Num(0), Num(5), Bool(FALSE), Bool(TRUE), Obj}

XssTitle ==
    <<"T", "e", "s", "t", " ", "<", "s", "c", "r", "i", "p", "t", ">", "a", "l",
      "e", "r", "t", "(", "\"", "x", "s", "s", "\"", ")", "<", "/", "s", "c",
      "r", "i", "p", "t", ">", " ", "N", "o", "t", "e">>
HtmlContent ==
    <<"C", "o", "n", "t", "e", "n", "t", " ", "w", "i", "t", "h", " ", "<", "b",
      ">", "H", "T", "M", "L", "<", "/", "b", ">", " ", "t", "a", "g", "s">>
TagsOnly == <<"<", "b", ">", "<", "/", "b", ">">>
PaddedTitle == <<" ", " ", "T", "i", "t", "l", "e", " ", " ">>
TabbedText == <<"\t", "a", "\n">>
TextThenTag == <<"a", " ", "<", "b", ">">>
NestedTag == <<"<", "a", "<", "b", ">", "c", ">">>

Texts == {XssTitle, HtmlContent, TagsOnly, PaddedTitle, TabbedText, TextThenTag, NestedTag}

\* titles of 255 and 256 characters, bare, padded with white space and
\* holding a tag
LongTitles ==
    {Repeat("a", 255),
     Repeat("a", 256),
     <<" ">> \o Repeat("a", 255) \o <<" ">>,
     <<" ">> \o Repeat("a", 256),
     Repeat("a", 252) \o <<"<", "b", ">">>,
     Repeat("a", 252) \o <<"<", "b", ">", "a">>}

\* contents of 500 and 501 characters, likewise, and the 10001 characters
\* of the unit tests
LongContents ==
    {Repeat("a", 500),
     Repeat("a", 501),
     <<" ">> \o Repeat("a", 500) \o <<" ">>,
     Repeat("a", 497) \o <<"<", "b", ">", "a">>,
     Repeat("a", 10001)}

TitleValues == NonStrings \cup {Str(s) : s \in Strings(MaxLen) \cup Texts \cup LongTitles}
ContentValues == NonStrings \cup {Str(s) : s \in Strings(MaxLen) \cup Texts \cup LongContents}

\* the decimal text of a one-digit id
IdText(i) == <<DigitChars[i + 1]>>

(***************************************************************************)
(* Spec: a client sends requests one after the other, each answered        *)
(* before the next is sent, with a few titles and contents.                *)
(***************************************************************************)
SomeTitles == {Str(<<"a">>), Str(TagsOnly)}
SomeContents == {Str(<<" ">>), Str(<<" ", "b", " ">>)}
SomeIds == {IdText(i) : i \in 1..(MaxId + 1)} \cup {<<"a", "b", "c">>}

Next ==
    \/ \E title \in SomeTitles, content \in SomeContents, dbOk \in BOOLEAN :
           createNote(title, content, dbOk) /\ nextId' <= MaxId + 1
    \/ \E dbOk \in BOOLEAN : getAllNotes(dbOk)
    \/ \E id \in SomeIds, dbOk \in BOOLEAN : getNoteById(id, dbOk)
    \/ \E id \in SomeIds, title \in SomeTitles, content \in SomeContents, dbOk \in BOOLEAN :
           updateNote(id, title, content, dbOk)
    \/ \E id \in SomeIds, dbOk \in BOOLEAN : deleteNote(id, dbOk)
    \/ Tick

Spec == Init /\ [][Next]_vars

(***************************************************************************)
(* SpecPipeline: one request with any title and content of TitleValues     *)
(* and ContentValues, sent to the empty table or to the table that         *)
(* createNote('a', ' b ') leaves (a state Spec reaches: SeedReached).       *)
(***************************************************************************)
SeedNote == Row(1, <<"a">>, <<"b">>, 0, 0)

InitPipeline ==
    /\ \/ notes = {} /\ nextId = 1
       \/ notes = {SeedNote} /\ nextId = 2
    /\ now = 0
    /\ req = NoRequest
    /\ res = NoResponse
    /\ calls = <<>>
    /\ logged = <<>>
    /\ pending = [c \in Clients |-> Idle]

PipelineIds == {<<"1">>, <<"7">>}

NextPipeline ==
    /\ req = NoRequest
    /\ \/ \E title \in TitleValues, content \in ContentValues, dbOk \in BOOLEAN :
              createNote(title, content, dbOk)
       \/ \E id \in PipelineIds, title \in TitleValues, content \in ContentValues,
             dbOk \in BOOLEAN :
              updateNote(id, title, content, dbOk)

SpecPipeline == InitPipeline /\ [][NextPipeline]_vars

\* the seeded table of InitPipeline, as Spec reaches it
SeedReached == notes = {SeedNote} /\ nextId = 2 /\ now = 0

(***************************************************************************)
(* SpecLifecycle: notes are created, read, updated and deleted one request *)
(* after the other, with bodies that trimming and sanitization change and  *)
(* with more ids than Spec has; the clock stands still.                    *)
(***************************************************************************)
CreateBodies == {<<Str(PaddedTitle), Str(NestedTag)>>}
UpdateBodies ==
    {<<Str(TextThenTag), Str(HtmlContent)>>, <<Str(PaddedTitle), Str(<<" ">>)>>}
LifecycleIds == {IdText(i) : i \in 1..(MaxNotes + 1)}

NextLifecycle ==
    \/ \E body \in CreateBodies, dbOk \in BOOLEAN :
           createNote(body[1], body[2], dbOk) /\ nextId' <= MaxNotes + 1
    \/ \E id \in LifecycleIds, dbOk \in BOOLEAN : getNoteById(id, dbOk)
    \/ \E id \in LifecycleIds, body \in UpdateBodies, dbOk \in BOOLEAN :
           updateNote(id, body[1], body[2], dbOk)
    \/ \E id \in LifecycleIds, dbOk \in BOOLEAN : deleteNote(id, dbOk)

SpecLifecycle == Init /\ [][NextLifecycle]_vars

(***************************************************************************)
(* SpecListing: notes are created at different times, listed and deleted.  *)
(***************************************************************************)
NextListing ==
    \/ \E body \in CreateBodies, dbOk \in BOOLEAN :
           createNote(body[1], body[2], dbOk) /\ nextId' <= MaxNotes + 1
    \/ \E dbOk \in BOOLEAN : getAllNotes(dbOk)
    \/ \E id \in LifecycleIds, dbOk \in BOOLEAN : deleteNote(id, dbOk)
    \/ Tick

SpecListing == Init /\ [][NextListing]_vars

(***************************************************************************)
(* SpecConcurrent: each client sends one updateNote or deleteNote to the   *)
(* table that holds SeedNote; the requests are in flight at the same time. *)
(***************************************************************************)
InitConcurrent ==
    /\ notes = {SeedNote}
    /\ nextId = 2
    /\ now = 0
    /\ req = NoRequest
    /\ res = NoResponse
    /\ calls = <<>>
    /\ logged = <<>>
    /\ pending = [c \in Clients |-> Idle]

ConcurrentBodies == UpdateBodies \cup {<<Str(PaddedTitle), Str(NestedTag)>>}

NextConcurrent ==
    \/ \E c \in Clients, id \in PipelineIds, body \in ConcurrentBodies :
           updateNote_begin(c, id, body[1], body[2])
    \/ \E c \in Clients, dbOk \in BOOLEAN : updateNote_await(c, dbOk)
    \/ \E c \in Clients : updateNote_resume(c)
    \/ \E c \in Clients, id \in PipelineIds : deleteNote_begin(c, id)
    \/ \E c \in Clients, dbOk \in BOOLEAN : deleteNote_await(c, dbOk)
    \/ \E c \in Clients : deleteNote_resume(c)

SpecConcurrent == InitConcurrent /\ [][NextConcurrent]_vars

(***************************************************************************)
(* Vocabulary of the properties.  They read the request that was answered  *)
(* (req), the response (res) and the calls made on the Note model (calls). *)
(***************************************************************************)
IsWrite == req.op \in {"createNote", "updateNote"}

IsString(v) == v.type = "string"

\* absent or falsy: missing, null, the empty string, 0, false
Falsy(v) ==
    \/ v = Undefined
    \/ v = Null
    \/ v = Str(<<>>)
    \/ v = Num(0)
    \/ v = Bool(FALSE)

\* v.trim() is the empty string
TrimsToEmpty(v) == IsString(v) /\ Trim(v.str) = <<>>

\* a string that is not blank
NonBlank(v) == IsString(v) /\ Trim(v.str) # <<>>

TrimmedLength(v) == Len(Trim(v.str))

\* a field that passes every check
ValidTitle(v) == NonBlank(v) /\ TrimmedLength(v) <= 255
ValidContent(v) == NonBlank(v) /\ TrimmedLength(v) <= 500

BadRequest(msg) == res = StatusJson(400, ErrorBody(msg))

\* the handler reached its store call: Note.create or Note.update, once
Accepted ==
    /\ Len(calls) = 1
    /\ calls[1].fn = (IF req.op = "createNote" THEN "create" ELSE "update")
    /\ res.status # <<400>>

\* the checks of the fixed order that the request fails
Fails(k) ==
    CASE k = 1 -> Falsy(req.title) \/ Falsy(req.content)
      [] k = 2 -> TrimsToEmpty(req.title)
      [] k = 3 -> TrimsToEmpty(req.content)
      [] k = 4 -> IsString(req.title) /\ TrimmedLength(req.title) > 255
      [] k = 5 -> IsString(req.content) /\ TrimmedLength(req.content) > 500

FailedChecks == {k \in 1..5 : Fails(k)}

FirstFailed == CHOOSE k \in FailedChecks : \A j \in FailedChecks : k <= j

CheckMessage(k) ==
    CASE k = 1 -> "Title and content are required"
      [] k = 2 -> "Title cannot be empty"
      [] k = 3 -> "Content cannot be empty"
      [] k = 4 -> "Title must be 255 characters or less"
      [] k = 5 -> "Content must be 500 characters or less"

\* C1: a create or update request that fails more than one check is answered
\* 400 with the message of the first failing check in the order presence,
\* title empty, content empty, title length, content length.
C1_FirstFailingCheckWins ==
    (IsWrite /\ Cardinality(FailedChecks) >= 2)
        => BadRequest(CheckMessage(FirstFailed))

\* blank content with an over-long title: 'Content cannot be empty'
C1_Witness ==
    /\ IsWrite
    /\ FailedChecks = {3, 4}
    /\ BadRequest("Content cannot be empty")

\* C2: a create or update request whose title or content is absent or falsy
\* is answered 400 'Title and content are required', whatever the other
\* field holds.
C2_MissingFields ==
    (IsWrite /\ (Falsy(req.title) \/ Falsy(req.content)))
        => BadRequest("Title and content are required")

\* an empty-string content beside an over-long title
C2_Witness ==
    /\ req.op = "updateNote"
    /\ IsString(req.title) /\ TrimmedLength(req.title) > 255
    /\ req.content = Str(<<>>)
    /\ BadRequest("Title and content are required")

\* C3 as stated: a non-blank title and a content whose trim() is the empty
\* string are answered 400 'Content cannot be empty'.
C3_AsStated ==
    (IsWrite /\ NonBlank(req.title) /\ TrimsToEmpty(req.content))
        => BadRequest("Content cannot be empty")

\* C3, amended: a non-blank title and a non-empty content whose trim() is the
\* empty string (white space only) are answered 400 'Content cannot be empty'.
C3_WhitespaceOnlyContent ==
    (IsWrite /\ NonBlank(req.title) /\ TrimsToEmpty(req.content)
        /\ Len(req.content.str) > 0)
        => BadRequest("Content cannot be empty")

C3_Witness ==
    /\ req.op = "createNote"
    /\ NonBlank(req.title)
    /\ TrimsToEmpty(req.content) /\ Len(req.content.str) > 0
    /\ BadRequest("Content cannot be empty")

\* C4: with an otherwise valid request, a title of trimmed length 255 is
\* accepted and a title of trimmed length 256 or more is answered 400
\* 'Title must be 255 characters or less'.
C4_TitleBoundary ==
    (IsWrite /\ IsString(req.title) /\ ValidContent(req.content))
        => /\ TrimmedLength(req.title) = 255 => Accepted
           /\ TrimmedLength(req.title) >= 256
                  => BadRequest("Title must be 255 characters or less")

\* a title of 257 characters that trims to 255 is stored
C4_Witness ==
    /\ req.op = "createNote"
    /\ IsString(req.title) /\ Len(req.title.str) = 257
    /\ TrimmedLength(req.title) = 255
    /\ ValidContent(req.content)
    /\ Accepted
    /\ res.status = <<201>>

C6_TenThousandMessage ==
    (IsWrite /\ ValidTitle(req.title) /\ IsString(req.content)
        /\ TrimmedLength(req.content) > 10000)
        => BadRequest("Content must be 10000 characters or less")

\* C7: a title or content that is present (truthy) but not a string is
\* answered with status 400, never 500, and no store operation is invoked.
C7_TypeIsValidated ==
    (IsWrite /\ \E v \in {req.title, req.content} : ~Falsy(v) /\ ~IsString(v))
        => res.status = <<400>> /\ calls = <<>>

\* the characters of s outside every span from a '<' to the first '>' after
\* it, in order
OutsideTags(s) ==
    LET opens == {q \in 1..Len(s) : s[q] = "<"}
        closes == {g \in 1..Len(s) : s[g] = ">"}
        InTag(p) ==
            /\ \E g \in closes : g >= p
            /\ \E q \in opens :
                   q <= p /\ \A g \in closes : ~(q <= g /\ g < p)
        indexed == [p \in 1..Len(s) |-> <<p, s[p]>>]
        kept == SelectSeq(indexed, LAMBDA e : ~InTag(e[1]))
    IN [i \in 1..Len(kept) |-> kept[i][2]]

InnerTextKept ==
    <<"T", "e", "s", "t", " ", "a", "l", "e", "r", "t", "(", "\"", "x", "s",
      "s", "\"", ")", " ", "N", "o", "t", "e">>

ElementRemovedTitle == <<"T", "e", "s", "t", " ", " ", "N", "o", "t", "e">>
ElementRemovedContent ==
    <<"C", "o", "n", "t", "e", "n", "t", " ", "w", "i", "t", "h", " ", " ",
      "t", "a", "g", "s">>

\* C9: createNote with title 'Test <script>alert("xss")</script> Note' and
\* content 'Content with <b>HTML</b> tags' calls the store with 'Test  Note'
\* and 'Content with  tags': an element goes with the text it encloses.
C9_ElementsRemovedWithText ==
    (req.op = "createNote" /\ req.title = Str(XssTitle)
        /\ req.content = Str(HtmlContent))
        => calls = <<Call("create", <<>>, ElementRemovedTitle, ElementRemovedContent)>>

\* C10: every persisted note has a non-empty title and a non-empty content.
C10_StoredFieldsNonEmpty ==
    \A n \in notes : Len(n.title) > 0 /\ Len(n.content) > 0

\* s holds a '<' with a '>' somewhere after it
HasTag(s) == \E q \in 1..Len(s) : \E g \in (q + 1)..Len(s) : s[q] = "<" /\ s[g] = ">"

\* C11: no persisted title or content holds a '<' followed later by a '>';
\* sanitizing a stored value again leaves it unchanged.
C11_StoredFieldsTagFree ==
    \A n \in notes :
        /\ ~HasTag(n.title) /\ ~HasTag(n.content)
        /\ sanitize(n.title) = n.title /\ sanitize(n.content) = n.content

\* the script title and the nested-tag content are stored without their tags,
\* a lone '>' remaining in the content
C11_Witness ==
    /\ IsWrite /\ Accepted
    /\ req.title = Str(XssTitle) /\ req.content = Str(NestedTag)
    /\ \E n \in notes : n.title = InnerTextKept /\ n.content = <<"c", ">">>

\* C12: every persisted title has at most 255 characters and every persisted
\* content at most 500, the configured content maximum.
C12_StoredFieldsBounded ==
    \A n \in notes : Len(n.title) <= 255 /\ Len(n.content) <= 500

\* a title of 255 characters and a content of 500 characters are stored whole
C12_Witness ==
    /\ IsWrite /\ Accepted
    /\ \E n \in notes :
           /\ Len(n.title) = 255 /\ Len(n.content) = 500
           /\ n.title = Trim(req.title.str) /\ n.content = Trim(req.content.str)

\* s neither begins nor ends with a white-space character
NoOuterWhiteSpace(s) ==
    s # <<>> => ~IsWhiteSpace(s[1]) /\ ~IsWhiteSpace(s[Len(s)])

\* C13: for every accepted create or update request, the title and the
\* content passed to the store neither begin nor end with white space.
C13_StoredFieldsTrimmed ==
    (IsWrite /\ Accepted)
        => NoOuterWhiteSpace(calls[1].title) /\ NoOuterWhiteSpace(calls[1].content)

\* C14: a create or update request answered 400 made no call on the Note
\* model, and Note.create or Note.update is called only for a request that
\* passed all five checks.
C14_ValidationBeforeStore ==
    IsWrite
        => /\ res.status = <<400>> => calls = <<>>
           /\ calls # <<>>
                  => /\ IsString(req.title) /\ IsString(req.content)
                     /\ FailedChecks = {}

\* a request that fails the last check only is answered 400 without a call
C14_Witness ==
    /\ req.op = "updateNote"
    /\ FailedChecks = {5}
    /\ res.status = <<400>>
    /\ calls = <<>>

\* a step of a handler: Tick is the only step that moves the clock
HandlerStep == now' = now

\* the id names a note of the table
Identifies(table, id) ==
    IsIntegerText(id) /\ \E n \in table : n.id = TextToInt(id)

\* the database could not be reached while the request was answered
Unreachable(log) == \E i \in 1..Len(log) : log[i] \in PoolErrors

NotFound == StatusJson(404, ErrorBody("Note not found"))

\* C15: while the database can be reached, getNoteById, updateNote with a
\* valid body and deleteNote are answered 404 'Note not found', never 500,
\* when the id names no note: an id never assigned, the id of a deleted note
\* or an id that is no well-formed number.
C15_UnknownIdNotFound ==
    [][(/\ HandlerStep
        /\ req'.op \in {"getNoteById", "updateNote", "deleteNote"}
        /\ req'.op = "updateNote"
               => ValidTitle(req'.title) /\ ValidContent(req'.content)
        /\ ~Identifies(notes, req'.id)
        /\ ~Unreachable(logged'))
           => res' = NotFound]_vars

\* the answers of the three writes that succeeded
Created == req.op = "createNote" /\ res.status = <<201>>
Updated ==
    req.op = "updateNote" /\ res.status = <<>> /\ res.json # <<>>
        /\ res.json[1].kind = "note"
Deleted ==
    req.op = "deleteNote" /\ res.status = <<>> /\ res.json # <<>>
        /\ res.json[1].kind = "deleted"

\* C16: the stored notes change only through a createNote answered 201, an
\* updateNote answered 200 or a deleteNote answered 200; getAllNotes,
\* getNoteById and every request answered 400, 404 or 500 leave the notes,
\* ids included, as they were.
C16_OnlySuccessfulWritesChangeNotes ==
    [][/\ notes' # notes => (Created \/ Updated \/ Deleted)'
       /\ (/\ HandlerStep
           /\ \/ req'.op \in {"getAllNotes", "getNoteById"}
              \/ res'.status \in {<<400>>, <<404>>, <<500>>})
              => notes' = notes /\ nextId' = nextId]_vars

\* an update of an unknown id is answered 404 beside a stored note
C16_Witness ==
    /\ req.op = "updateNote"
    /\ res = NotFound
    /\ calls # <<>>
    /\ notes # {}
    /\ ~Identifies(notes, req.id)

\* the fixed message of each handler's catch block
FailureMessage(op) ==
    CASE op = "createNote" -> "Failed to create note"
      [] op = "getAllNotes" -> "Failed to fetch notes"
      [] op = "getNoteById" -> "Failed to fetch note"
      [] op = "updateNote" -> "Failed to update note"
      [] op = "deleteNote" -> "Failed to delete note"

\* the call the handler made on the Note model raised an error
StoreRaised == calls # <<>> /\ logged # <<>>

\* C17: when the store operation raises, the handler answers 500 with its
\* own fixed message; the answer depends on the handler alone, so it is the
\* same for any two different errors.
C17_FixedFailureResponse ==
    StoreRaised => res = StatusJson(500, ErrorBody(FailureMessage(req.op)))

\* deleteNote answers a malformed id as it answers an unreachable database
C17_Witness ==
    /\ req.op = "deleteNote"
    /\ calls # <<>>
    /\ logged = <<InvalidTextRepresentation>>
    /\ res = StatusJson(500, ErrorBody("Failed to delete note"))

\* the note of a response that carries one
ResponseNote == res.json[1].note

\* C18: a createNote that is accepted and whose store call succeeds is
\* answered 201 with the created note, whose title and content are the
\* trimmed and sanitized inputs and whose id the store assigned; getNoteById
\* for that id immediately afterwards is answered with the same note.
C18_CreateThenRead ==
    [][/\ Created'
          => /\ res'.json = <<NoteBody(ResponseNote')>>
             /\ ResponseNote'.title = OutsideTags(Trim(req'.title.str))
             /\ ResponseNote'.content = OutsideTags(Trim(req'.content.str))
             /\ ResponseNote'.id = nextId
             /\ ResponseNote' \in notes'
       /\ (/\ Created
           /\ HandlerStep
           /\ req' = Request("getNoteById", IdText(ResponseNote.id), Undefined, Undefined)
           /\ logged' = <<>>)
              => res' = Json(NoteBody(ResponseNote))]_vars

\* the second note created, '  Title  ' stored as 'Title' and '<a<b>c>' as 'c>'
C18_Witness ==
    /\ Created
    /\ req.title = Str(PaddedTitle) /\ req.content = Str(NestedTag)
    /\ ResponseNote.id = 2
    /\ ResponseNote.title = <<"T", "i", "t", "l", "e">>
    /\ ResponseNote.content = <<"c", ">">>
    /\ ResponseNote \in notes

\* the ids of the notes of a table
Ids(table) == {n.id : n \in table}

\* C19: every created note gets an id different from every id assigned
\* before, the ids of deleted notes included, and no operation changes the id
\* of an existing note.  Ids come from the sequence: the sequence never goes
\* back, every stored id lies below it, and a created note takes its value
\* and advances it; the ids of the table change by that one id at most, and
\* only deleteNote removes one.
C19_IdsFreshAndImmutable ==
    [][/\ nextId' >= nextId
       /\ \A n \in notes' : n.id < nextId'
       /\ Cardinality(Ids(notes')) = Cardinality(notes')
       /\ (HandlerStep /\ Created')
              => /\ ResponseNote'.id = nextId
                 /\ ResponseNote'.id \notin Ids(notes)
                 /\ nextId' = nextId + 1
                 /\ Ids(notes') = Ids(notes) \cup {nextId}
       /\ ~Created' => Ids(notes') \subseteq Ids(notes)
       /\ req'.op # "deleteNote" => Ids(notes) \subseteq Ids(notes')]_vars

\* a note created after note 1 was deleted: it is note 2, alone in the table
C19_Witness ==
    /\ Created
    /\ ResponseNote.id = 2
    /\ notes = {ResponseNote}
    /\ nextId = 3

\* C20: an updateNote that succeeds replaces both the title and the content
\* of the note with the trimmed and sanitized inputs, never one of them only,
\* and is answered 200 with the updated note; getNoteById for that id
\* immediately afterwards returns exactly those values.
C20_UpdateThenRead ==
    [][/\ (HandlerStep /\ Updated')
          => /\ res' = Json(NoteBody(ResponseNote'))
             /\ ResponseNote'.id = TextToInt(req'.id)
             /\ ResponseNote'.title = OutsideTags(Trim(req'.title.str))
             /\ ResponseNote'.content = OutsideTags(Trim(req'.content.str))
             /\ ResponseNote' \in notes'
             /\ \A n \in notes' : n.id = ResponseNote'.id => n = ResponseNote'
       /\ (/\ Updated
           /\ HandlerStep
           /\ req' = Request("getNoteById", req.id, Undefined, Undefined)
           /\ logged' = <<>>)
              => /\ res' = Json(NoteBody(ResponseNote))
                 /\ ResponseNote'.title = OutsideTags(Trim(req.title.str))
                 /\ ResponseNote'.content = OutsideTags(Trim(req.content.str))]_vars

\* note 2, created as 'Title' / 'c>', now holds 'a ' and the content without
\* its <b> and </b>
C20_Witness ==
    /\ Updated
    /\ req.id = <<"2">>
    /\ req.title = Str(TextThenTag) /\ req.content = Str(HtmlContent)
    /\ ResponseNote.title = <<"a", " ">>
    /\ ResponseNote.content = OutsideTags(HtmlContent)
    /\ ResponseNote.content # <<"c", ">">>
    /\ ResponseNote \in notes

\* C21: every successful updateNote sets the note's updated_at to the time of
\* that update and leaves its created_at as it was; every stored note has
\* created_at <= updated_at, and the updated_at of a note never decreases.
C21_UpdatedAtRefreshed ==
    [][/\ (HandlerStep /\ Updated')
          => /\ ResponseNote'.updated_at = now
             /\ \E n \in notes :
                    n.id = ResponseNote'.id /\ n.created_at = ResponseNote'.created_at
       /\ \A n \in notes' : n.created_at <= n.updated_at
       /\ \A n \in notes, m \in notes' :
              n.id = m.id
                  => m.updated_at >= n.updated_at /\ m.created_at = n.created_at]_vars

\* a note created at time 0 and updated at time 1
C21_Witness ==
    /\ Updated
    /\ now = 1
    /\ ResponseNote.created_at = 0
    /\ ResponseNote.updated_at = 1
    /\ ResponseNote \in notes

\* the id was given to a note that is no longer in the table: the sequence
\* has passed it (C19) and only deleteNote removes a note (C16)
WasDeleted(id) ==
    IsIntegerText(id) /\ TextToInt(id) \in 1..(nextId - 1) /\ ~Identifies(notes, id)

\* deleteNote on an existing id removes that note and no other and answers
\* 200 with the message and the note as it was stored
DeleteRemovesExactlyThatNote ==
    /\ (HandlerStep /\ req'.op = "deleteNote" /\ Identifies(notes, req'.id)
           /\ ~Unreachable(logged'))
          => Deleted'
    /\ (HandlerStep /\ Deleted')
          => \E n \in notes :
                 /\ n.id = TextToInt(req'.id)
                 /\ notes' = notes \ {n}
                 /\ res' = Json([kind |-> "deleted",
                                 message |-> "Note deleted successfully",
                                 note |-> n])

\* a deleted id stays deleted
DeletedForGood == \A id \in LifecycleIds : WasDeleted(id) => WasDeleted(id)'

ResponseRows == res.json[1].rows

\* C23: getAllNotes answers with exactly the notes of the table, each once,
\* ordered by created_at with the newest first; for an empty table the body
\* is the empty array; the handler sets no status, so the default 200 applies.
C23_ListsAllNewestFirst ==
    (req.op = "getAllNotes" /\ logged = <<>>)
        => /\ res.status = <<>>
           /\ res.json = <<ListBody(ResponseRows)>>
           /\ Len(ResponseRows) = Cardinality(notes)
           /\ {ResponseRows[i] : i \in 1..Len(ResponseRows)} = notes
           /\ \A i, j \in 1..Len(ResponseRows) :
                  i < j => ResponseRows[i].created_at >= ResponseRows[j].created_at
           /\ notes = {} => ResponseRows = <<>>

\* two notes created at different times, the later one listed first
C23_Witness ==
    /\ req.op = "getAllNotes"
    /\ logged = <<>>
    /\ Len(ResponseRows) = 2
    /\ ResponseRows[1].created_at > ResponseRows[2].created_at

\* what createNote and what updateNote make of the body of the request
CreateOutcome == createNoteChecks(req.title, req.content)
UpdateOutcome == updateNoteChecks(req.title, req.content)

\* C24: createNote and updateNote apply the same validation and
\* normalization: for every title and content, either both answer 400 with
\* the same message or both pass the same normalized title and content to
\* the store.
C24_SameValidationOnBothPaths ==
    IsWrite
        => \/ /\ CreateOutcome.kind = "respond" /\ UpdateOutcome.kind = "respond"
              /\ CreateOutcome.res.status = <<400>>
              /\ CreateOutcome.res = UpdateOutcome.res
              /\ res = CreateOutcome.res
           \/ /\ CreateOutcome.kind = "store" /\ UpdateOutcome.kind = "store"
              /\ CreateOutcome.title = UpdateOutcome.title
              /\ CreateOutcome.content = UpdateOutcome.content
              /\ calls # <<>>
              /\ calls[1].title = CreateOutcome.title
              /\ calls[1].content = CreateOutcome.content

\* the operation of the Note model that each handler calls
StoreOperation(op) ==
    CASE op = "createNote" -> "create"
      [] op = "getAllNotes" -> "findAll"
      [] op = "getNoteById" -> "findById"
      [] op = "updateNote" -> "update"
      [] op = "deleteNote" -> "delete"
      [] OTHER -> "none"

\* C25: nothing is retried: a handler calls at most one operation of the
\* store per request, its own, and a request whose store operation failed or
\* found no row ends with its 500 or 404 answer after that one call.
C25_AtMostOneStoreCall ==
    /\ Len(calls) <= 1
    /\ \A i \in 1..Len(calls) : calls[i].fn = StoreOperation(req.op)
    /\ (StoreRaised \/ res = NotFound) => Len(calls) = 1

\* getNoteById with the database out of reach: one call, then 500
C25_Witness ==
    /\ req.op = "getNoteById"
    /\ Unreachable(logged)
    /\ res = StatusJson(500, ErrorBody("Failed to fetch note"))
    /\ calls = <<Call("findById", req.id, <<>>, <<>>)>>

\* a body that validation rejects: it fails one of the five checks, each
\* field being absent, falsy or a string
InvalidBody ==
    /\ FailedChecks # {}
    /\ Falsy(req.title) \/ Falsy(req.content)
           \/ (IsString(req.title) /\ IsString(req.content))

OnSeedNote(c) == pending[c].id = <<"1">> /\ pending[c].rank > 0
AppliedUpdates == {c \in Clients : OnSeedNote(c) /\ pending[c].op = "updateNote"}
AppliedDeletes == {c \in Clients : OnSeedNote(c) /\ pending[c].op = "deleteNote"}

\* the request of S whose statement was applied last
LastApplied(S) == CHOOSE c \in S : \A d \in S : pending[d].rank <= pending[c].rank

\* C27: when several updateNote requests with valid bodies for the same
\* existing id are in flight together, the stored title and content both
\* come from one request, the one whose statement was applied last; this
\* holds after each statement, and so when all of them are complete.
C27_LastUpdateWinsWhole ==
    \A n \in notes :
        (n.id = 1 /\ AppliedUpdates # {})
            => /\ n.title = pending[LastApplied(AppliedUpdates)].title
               /\ n.content = pending[LastApplied(AppliedUpdates)].content

\* two updates of note 1 with different bodies, both applied and neither
\* resumed yet; the note holds the title and content of the second
C27_Witness ==
    /\ Cardinality(AppliedUpdates) = 2
    /\ \A c \in AppliedUpdates : pending[c].stage = "settled"
    /\ \E c, d \in AppliedUpdates :
           /\ pending[c].rank < pending[d].rank
           /\ pending[c].title # pending[d].title
           /\ pending[c].content # pending[d].content
           /\ \E n \in notes :
                  n.title = pending[d].title /\ n.content = pending[d].content

\* u is an updateNote and d a deleteNote of note 1, both answered after their
\* statements were applied, and no other statement was applied to note 1
UpdateAndDeleteDone(u, d) ==
    /\ AppliedUpdates = {u}
    /\ AppliedDeletes = {d}
    /\ pending[u].stage = "done" /\ pending[d].stage = "done"

\* note 1 as the update of u leaves it
UpdatedBy(u) ==
    Row(1, pending[u].title, pending[u].content, SeedNote.created_at, now)

\* C28: when an updateNote with a valid body and a deleteNote for the same
\* existing id are in flight together, the outcome is that of one of the two
\* serial orders: the update is answered 200 and the delete 200 with the
\* updated note, or the delete is answered 200 and the update 404; either
\* way the note is absent afterwards: the update never creates it again.
C28_UpdateDeleteSerializable ==
    /\ \A u, d \in Clients :
           UpdateAndDeleteDone(u, d)
               => \/ /\ pending[u].rank < pending[d].rank
                     /\ pending[u].res = Json(NoteBody(UpdatedBy(u)))
                     /\ pending[d].res = Json(DeletedBody(UpdatedBy(u)))
                  \/ /\ pending[d].rank < pending[u].rank
                     /\ pending[d].res = Json(DeletedBody(SeedNote))
                     /\ pending[u].res = NotFound
    /\ AppliedDeletes # {} => ~Identifies(notes, <<"1">>)

\* the delete was applied first: it is answered 200 with the note as it was
\* created, the update 404, and the table is empty
C28_Witness ==
    \E u, d \in Clients :
        /\ UpdateAndDeleteDone(u, d)
        /\ pending[d].rank = 1 /\ pending[u].rank = 2
        /\ pending[d].res = Json(DeletedBody(SeedNote))
        /\ pending[u].res = NotFound
        /\ notes = {}

\* the request being answered is an updateNote or a deleteNote on the id of n
Targets(request, n) ==
    /\ request.op \in {"updateNote", "deleteNote"}
    /\ IsIntegerText(request.id)
    /\ n.id = TextToInt(request.id)

\* C29: updateNote and deleteNote on an id change only the note with that
\* id: every other stored note keeps its id, title, content, created_at and
\* updated_at; createNote changes no existing note, it adds the new one.
C29_OtherNotesUntouched ==
    [][/\ \A n \in notes : n \in notes' \/ Targets(req', n)
       /\ \A m \in notes' :
              \/ m \in notes
              \/ Created' /\ m.id = nextId
              \/ req'.op = "updateNote" /\ Targets(req', m)]_vars

\* note 1 updated beside note 2, which holds what it was created with
C29_Witness ==
    /\ Updated
    /\ ResponseNote.id = 1
    /\ ResponseNote.title = <<"a", " ">>
    /\ \E m \in notes :
           /\ m.id = 2
           /\ m.title = <<"T", "i", "t", "l", "e">>
           /\ m.content = <<"c", ">">>

\* C30: every invocation of a handler whose store call settles, and every
\* one answered before the store is called, sends exactly one response body:
\* never none, and never a second one after a 400, 404 or 500; the status is
\* set once at most.
C30_ExactlyOneResponse ==
    req.op # "none"
        => /\ Len(res.json) = 1
           /\ Len(res.status) <= 1
           /\ \A i \in 1..Len(res.status) : res.status[i] \in {201, 400, 404, 500}

\* deleteNote of an id that names no note: one call of the store, then the
\* 404 body and nothing after it
C30_Witness ==
    /\ req.op = "deleteNote"
    /\ calls = <<Call("delete", req.id, <<>>, <<>>)>>
    /\ logged = <<>>
    /\ res.status = <<404>>
    /\ res.json = <<ErrorBody("Note not found")>>

====
